---- MODULE Spec2Model ----
(***************************************************************************)
(* The query session of the Knowledge Graph Explorer front end:            *)
(* the GraphRAGFrontend component (src/unnamed/part_000) and the           *)
(* transport functions of src/frontend/src/services/api.js.                *)
(*                                                                         *)
(* A text is a sequence of segments, so that String.trim is computed and   *)
(* not assumed: a segment is one whitespace character, or a string that    *)
(* neither starts nor ends with whitespace.  A JavaScript object is a      *)
(* record; a property the object does not have is a field outside the      *)
(* record's DOMAIN.                                                        *)
(*                                                                         *)
(* React state: messages, input, isLoading hold the values written by the  *)
(* setters (the state the next render commits).  handleSubmit does not     *)
(* read them: it reads the constants `input` and `isLoading` its closure   *)
(* captured when the component last rendered; that snapshot is `view`.     *)
(* React 18 (README.md:6) renders after the event handler has returned,    *)
(* so Render is a step of its own: events dispatched before it run the     *)
(* handlers of the previous render.                                        *)
(*                                                                         *)
(* The stats load: the mount effect calls fetchStats once and attaches a   *)
(* fulfilment callback only.  statsCalls counts its unsettled calls, and   *)
(* unhandled holds the promises that rejected with no handler attached.    *)
(***************************************************************************)
EXTENDS Integers, Sequences, FiniteSets, TLC

VARIABLES
    messages,   \* useState: the conversation            (part_000:15)
    input,      \* useState: the draft text              (part_000:23)
    isLoading,  \* useState: the pending flag            (part_000:24)
    view,       \* input / isLoading as captured by the closures of the last render
    requests,   \* queryGraph calls whose continuation has not yet run, in order of issue
    root,       \* the React root: "mounted", "failing" (a queued updater will throw), "unmounted"
    stats,      \* useState: the counters of the header  (part_000:25)
    statsCalls, \* the number of fetchStats calls whose promise has not yet settled
    unhandled   \* the promises that rejected with no handler attached (unhandledrejection)

\* the state of the query session, and the state of the stats load
queryVars == <<messages, input, isLoading, view, requests, root>>
statsVars == <<stats, statsCalls, unhandled>>

vars == <<messages, input, isLoading, view, requests, root, stats, statsCalls, unhandled>>

----------------------------------------------------------------------------
(* Bounds of the model *)

\* the conversation is followed until it holds this many messages
MaxMessages == 4

\* the same, where only the first round-trip of a session is followed
RoundTripMessages == 3

----------------------------------------------------------------------------
(* Texts of the program *)

GREETING ==
    << "Hello! I'm your Knowledge Graph assistant. Ask me anything about people, places, or events in my database." >>

NO_ANSWER == << "No answer found." >>

BACKEND_ERROR == << "Backend not reachable. Is FastAPI running?" >>

suggestions == <<
    << "Who is Barack Obama?" >>,
    << "Tell me about Jackie Chan" >>,
    << "What professions exist?" >>,
    << "Who won the 52nd Grammy Award?" >> >>

\* queryGraph's default for top_k
TOP_K == 15

----------------------------------------------------------------------------
(* String.prototype.trim: drops the whitespace at both ends *)

IsSpace(c) == c = " "

RECURSIVE TrimStart(_)
TrimStart(s) ==
    IF s # <<>> /\ IsSpace(Head(s)) THEN TrimStart(Tail(s)) ELSE s

RECURSIVE TrimEnd(_)
TrimEnd(s) ==
    IF s # <<>> /\ IsSpace(s[Len(s)]) THEN TrimEnd(SubSeq(s, 1, Len(s) - 1)) ELSE s

Trim(s) == TrimEnd(TrimStart(s))

----------------------------------------------------------------------------
(* Inputs: what the user types and what the backend answers *)

\* texts typed into the input box: empty, blank, padded
TypedTexts ==
    { <<>>, <<" ", " ">>, <<" ", "hi", " ">> }

Answers == { <<>>, <<"Barack Obama is...">> }
EntityLists == { <<>>, <<"Barack Obama", "United States">> }
TripletCounts == { 0, 10 }

Field(name, present, value) == IF present THEN name :> value ELSE <<>>

\* a JSON object with any subset of the fields answer, entities_found, num_triplets
QueryObjects ==
    { Field("answer", pa, a) @@ Field("entities_found", pe, e)
        @@ Field("num_triplets", pn, n) :
        <<pa, a, pe>> \in BOOLEAN \X Answers \X BOOLEAN,
        <<e, pn, n>> \in EntityLists \X BOOLEAN \X TripletCounts }

\* the objects with all three fields or none, with a status field as well
StatusObjects ==
    { o @@ ("status" :> st) :
        o \in { q \in QueryObjects : DOMAIN q = {} \/ Cardinality(DOMAIN q) = 3 },
        st \in { "success", "error" } }

JsonObjects == QueryObjects \cup StatusObjects

\* a parsed JSON value: null, a scalar, an array, or an object
JsonValues ==
    { [t |-> "null"], [t |-> "number"], [t |-> "array"] }
        \cup { [t |-> "object", v |-> o] : o \in JsonObjects }

\* the bodies of error responses: no query result, or one with a status field
ErrorBodies ==
    { [t |-> "null"], [t |-> "number"], [t |-> "array"] }
        \cup { [t |-> "object", v |-> o] : o \in StatusObjects }

\* what the network does with one POST /query: the fetch rejects, or a response
\* arrives with a 2xx status or not (ok) and a body that parses as JSON or not
Responses ==
    { [kind |-> "rejected"] }
        \cup { [kind |-> "response", ok |-> ok, parses |-> FALSE] : ok \in BOOLEAN }
        \cup { [kind |-> "response", ok |-> TRUE, parses |-> TRUE, json |-> j] :
                 j \in JsonValues }
        \cup { [kind |-> "response", ok |-> FALSE, parses |-> TRUE, json |-> j] :
                 j \in ErrorBodies }

\* the counters a /stats body carries
StatsCounts == { 0, 7 }

\* a JSON object with any subset of the fields triplets, entities
StatsObjects ==
    { Field("triplets", pt, t) @@ Field("entities", pe, e) :
        <<pt, t>> \in BOOLEAN \X StatsCounts, <<pe, e>> \in BOOLEAN \X StatsCounts }

StatsValues ==
    { [t |-> "null"], [t |-> "number"], [t |-> "array"] }
        \cup { [t |-> "object", v |-> o] : o \in StatsObjects }

\* the bodies of error responses to GET /stats: they carry no counter
StatsErrorBodies ==
    { [t |-> "null"], [t |-> "number"], [t |-> "array"],
      [t |-> "object", v |-> <<>>], [t |-> "object", v |-> ("detail" :> "error")] }

\* what the network does with the one GET /stats
StatsResponses ==
    { [kind |-> "rejected"] }
        \cup { [kind |-> "response", ok |-> ok, parses |-> FALSE] : ok \in BOOLEAN }
        \cup { [kind |-> "response", ok |-> TRUE, parses |-> TRUE, json |-> j] :
                 j \in StatsValues }
        \cup { [kind |-> "response", ok |-> FALSE, parses |-> TRUE, json |-> j] :
                 j \in StatsErrorBodies }

----------------------------------------------------------------------------
(* api.js *)

\* fetchStats: rejects with the fetch, or when the body does not parse
fetchStats(r) ==
    IF r.kind = "rejected" THEN [settled |-> "rejected"]
    ELSE IF ~r.parses THEN [settled |-> "rejected"]
    ELSE [settled |-> "fulfilled", data |-> r.json]

\* queryGraph as it would be with the parse failure swallowed: res.json().catch(() => ({}))
queryGraphSwallowingParseError(query, top_k, r) ==
    IF r.kind = "rejected" THEN [settled |-> "rejected"]
    ELSE IF ~r.parses THEN [settled |-> "fulfilled", data |-> [t |-> "object", v |-> <<>>]]
    ELSE [settled |-> "fulfilled", data |-> r.json]

\* queryGraph: `await fetch(...)` rejects with the fetch; `res.json()` rejects when the
\* body does not parse; res.ok / res.status is never read
queryGraph(query, top_k, r) ==
    IF r.kind = "rejected" THEN [settled |-> "rejected"]
    ELSE IF ~r.parses THEN [settled |-> "rejected"]
    ELSE [settled |-> "fulfilled", data |-> r.json]

----------------------------------------------------------------------------
(* GraphRAGFrontend *)

\* data.<name> is not undefined
Has(data, name) == data.t = "object" /\ name \in DOMAIN data.v

\* ContentOf as it would be without the fallback: content: data.answer
ContentOfWithoutFallback(data) ==
    IF Has(data, "answer") THEN data.v.answer ELSE <<>>

\* data.answer || "No answer found."   (the empty string is falsy)
ContentOf(data) ==
    IF Has(data, "answer") /\ data.v.answer # <<>> THEN data.v.answer ELSE NO_ANSWER

\* EntitiesOf as it would be reading the wrong property: data.entities || []
EntitiesOfWrongProperty(data) ==
    IF Has(data, "entities") THEN data.v.entities ELSE <<>>

\* data.entities_found || []           (every array is truthy)
EntitiesOf(data) ==
    IF Has(data, "entities_found") THEN data.v.entities_found ELSE <<>>

\* data.num_triplets || 0
NumTripletsOf(data) ==
    IF Has(data, "num_triplets") /\ data.v.num_triplets # 0
    THEN data.v.num_triplets ELSE 0

\* the message of the try branch
AnswerMessage(data) ==
    [type |-> "assistant", content |-> ContentOf(data),
     entities |-> EntitiesOf(data), numTriplets |-> NumTripletsOf(data)]

\* the message of the catch branch
ErrorMessage ==
    [type |-> "assistant", isError |-> TRUE, content |-> BACKEND_ERROR]

\* UserMessage as it would be with the text trimmed: content: input.trim()
UserMessageTrimmed(text) == [type |-> "user", content |-> Trim(text)]

\* the message handleSubmit appends before the call
UserMessage(text) == [type |-> "user", content |-> text]

InitialMessages ==
    << [type |-> "assistant", content |-> GREETING, entities |-> <<>>] >>

\* the guard as it would be without the trim: if (!input || isLoading) return
RejectsWithoutTrim(v) == v.input = <<>> \/ v.isLoading

\* the guard of handleSubmit, on the values its closure captured
Rejects(v) == Trim(v.input) = <<>> \/ v.isLoading

Remove(s, i) == SubSeq(s, 1, i - 1) \o SubSeq(s, i + 1, Len(s))

\* the initial value of stats
STATS_ZERO == [triplets |-> 0, entities |-> 0]

\* CounterOf as it would be with another default: data.<name> || 1
CounterOfDefaultingToOne(data, name) ==
    IF Has(data, name) /\ data.v[name] # 0 THEN data.v[name] ELSE 1

\* data.<name> || 0
CounterOf(data, name) ==
    IF Has(data, name) /\ data.v[name] # 0 THEN data.v[name] ELSE 0

\* the object the callback of fetchStats().then passes to setStats
StatsOf(data) ==
    [triplets |-> CounterOf(data, "triplets"), entities |-> CounterOf(data, "entities")]

\* the state once the component is mounted: the mount effect has called fetchStats
Init ==
    /\ messages = InitialMessages
    /\ input = <<>>
    /\ isLoading = FALSE
    /\ view = [input |-> <<>>, isLoading |-> FALSE]
    /\ requests = <<>>
    /\ root = "mounted"
    /\ stats = STATS_ZERO
    /\ statsCalls = 1
    /\ unhandled = {}

\* React renders the component: the closures of the new render capture the state.
\* An updater that throws while the queue is processed fails the render, and an
\* error no boundary catches unmounts the root.
Render ==
    /\ root # "unmounted"
    /\ IF root = "failing"
       THEN root' = "unmounted" /\ UNCHANGED view
       ELSE /\ view # [input |-> input, isLoading |-> isLoading]
            /\ view' = [input |-> input, isLoading |-> isLoading]
            /\ UNCHANGED root
    /\ UNCHANGED <<messages, input, isLoading, requests>>
    /\ UNCHANGED statsVars

\* onChange of the input box.  The box is a controlled input (value={input}): React
\* flushes the setInput of a change event before the event returns, so the closures
\* of the next event see the typed text.
Change(text) ==
    /\ root # "unmounted"
    /\ input' = text
    /\ view' = [view EXCEPT !.input = text]
    /\ UNCHANGED <<messages, isLoading, requests, root>>
    /\ UNCHANGED statsVars

\* Suggest as it would be if the button also submitted the suggestion
SuggestSubmitting(i) ==
    /\ root # "unmounted"
    /\ Len(messages) < MaxMessages
    /\ input' = suggestions[i]
    /\ messages' = Append(messages, UserMessage(suggestions[i]))
    /\ UNCHANGED <<isLoading, view, requests, root>>
    /\ UNCHANGED statsVars

\* onClick of a suggestion button
Suggest(i) ==
    /\ root # "unmounted"
    /\ input' = suggestions[i]
    /\ UNCHANGED <<messages, isLoading, view, requests, root>>
    /\ UNCHANGED statsVars

\* HandleSubmit as it would be without setInput("")
HandleSubmitKeepingDraft ==
    /\ root # "unmounted"
    /\ IF Rejects(view)
       THEN UNCHANGED <<messages, input, isLoading, requests>>
       ELSE /\ Len(messages) < MaxMessages
            /\ messages' = Append(messages, UserMessage(view.input))
            /\ isLoading' = TRUE
            /\ UNCHANGED input
            /\ requests' = Append(requests, [query |-> view.input, top_k |-> TOP_K])
    /\ UNCHANGED <<view, root>>
    /\ UNCHANGED statsVars

\* HandleSubmit as it would be with the user turn put first: [{...}, ...prev]
HandleSubmitPrepending ==
    /\ root # "unmounted"
    /\ IF Rejects(view)
       THEN UNCHANGED <<messages, input, isLoading, requests>>
       ELSE /\ Len(messages) < MaxMessages
            /\ messages' = << UserMessage(view.input) >> \o messages
            /\ isLoading' = TRUE
            /\ input' = <<>>
            /\ requests' = Append(requests, [query |-> view.input, top_k |-> TOP_K])
    /\ UNCHANGED <<view, root>>
    /\ UNCHANGED statsVars

\* handleSubmit up to its await: onClick of the send button
HandleSubmit ==
    /\ root # "unmounted"
    /\ IF Rejects(view)
       THEN UNCHANGED <<messages, input, isLoading, requests>>
       ELSE /\ Len(messages) < MaxMessages
            /\ messages' = Append(messages, UserMessage(view.input))
            /\ isLoading' = TRUE
            /\ input' = <<>>
            /\ requests' = Append(requests, [query |-> view.input, top_k |-> TOP_K])
    /\ UNCHANGED <<view, root>>
    /\ UNCHANGED statsVars

\* Resolve as it would be if finally also cleared the draft: setInput("")
ResolveClearingDraft(i, r) ==
    /\ root # "unmounted"
    /\ LET out == queryGraph(requests[i].query, requests[i].top_k, r) IN
       IF out.settled = "rejected"
       THEN /\ Len(messages) < MaxMessages
            /\ messages' = Append(messages, ErrorMessage)
            /\ UNCHANGED root
       ELSE IF out.data.t = "null"
       THEN root' = "failing" /\ UNCHANGED messages
       ELSE /\ Len(messages) < MaxMessages
            /\ messages' = Append(messages, AnswerMessage(out.data))
            /\ UNCHANGED root
    /\ isLoading' = FALSE
    /\ input' = <<>>
    /\ requests' = Remove(requests, i)
    /\ UNCHANGED view
    /\ UNCHANGED statsVars

\* Resolve as it would be if the catch branch loaded the stats again
ResolveRefetchingStats(i, r) ==
    /\ root # "unmounted"
    /\ LET out == queryGraph(requests[i].query, requests[i].top_k, r) IN
       IF out.settled = "rejected"
       THEN /\ Len(messages) < MaxMessages
            /\ messages' = Append(messages, ErrorMessage)
            /\ statsCalls' = statsCalls + 1
            /\ UNCHANGED root
       ELSE IF out.data.t = "null"
       THEN root' = "failing" /\ UNCHANGED <<messages, statsCalls>>
       ELSE /\ Len(messages) < MaxMessages
            /\ messages' = Append(messages, AnswerMessage(out.data))
            /\ UNCHANGED <<root, statsCalls>>
    /\ isLoading' = FALSE
    /\ requests' = Remove(requests, i)
    /\ UNCHANGED <<input, view, stats, unhandled>>

\* handleSubmit after its await: request i settles with r and try / catch / finally run.
\* The answer message is built inside the updater passed to setMessages, which React
\* calls later: reading data.answer of null throws there, not inside the try block.
Resolve(i, r) ==
    /\ root # "unmounted"
    /\ LET out == queryGraph(requests[i].query, requests[i].top_k, r) IN
       IF out.settled = "rejected"
       THEN /\ Len(messages) < MaxMessages
            /\ messages' = Append(messages, ErrorMessage)
            /\ UNCHANGED root
       ELSE IF out.data.t = "null"
       THEN root' = "failing" /\ UNCHANGED messages
       ELSE /\ Len(messages) < MaxMessages
            /\ messages' = Append(messages, AnswerMessage(out.data))
            /\ UNCHANGED root
    /\ isLoading' = FALSE
    /\ requests' = Remove(requests, i)
    /\ UNCHANGED <<input, view>>
    /\ UNCHANGED statsVars

\* StatsSettle as it would be if the loader shared the pending flag of the queries
StatsSettleClearingPending(r) ==
    /\ statsCalls > 0
    /\ statsCalls' = statsCalls - 1
    /\ LET out == fetchStats(r) IN
       IF out.settled = "rejected" \/ out.data.t = "null"
       THEN /\ unhandled' = unhandled \cup { "fetchStats().then" }
            /\ UNCHANGED stats
       ELSE /\ stats' = IF root = "unmounted" THEN stats ELSE StatsOf(out.data)
            /\ UNCHANGED unhandled
    /\ isLoading' = FALSE
    /\ UNCHANGED <<messages, input, view, requests, root>>

\* the promise of fetchStats().then(...) settles, for response r.  The effect attaches
\* no rejection handler: a rejection of fetchStats, or the TypeError the callback
\* throws reading data.triplets of null, leaves a rejected promise nobody handles.
\* setStats on a root that is unmounted has no effect.
StatsSettle(r) ==
    /\ statsCalls > 0
    /\ statsCalls' = statsCalls - 1
    /\ LET out == fetchStats(r) IN
       IF out.settled = "rejected" \/ out.data.t = "null"
       THEN /\ unhandled' = unhandled \cup { "fetchStats().then" }
            /\ UNCHANGED stats
       ELSE /\ stats' = IF root = "unmounted" THEN stats ELSE StatsOf(out.data)
            /\ UNCHANGED unhandled
    /\ UNCHANGED queryVars

\* the query session: the events of the input box, the buttons and the query calls,
\* while the stats call is outstanding
Next ==
    \/ Render
    \/ \E text \in TypedTexts : Change(text)
    \/ \E i \in DOMAIN suggestions : Suggest(i)
    \/ HandleSubmit
    \/ \E i \in DOMAIN requests, r \in Responses : Resolve(i, r)

Spec == Init /\ [][Next]_vars

\* the sessions up to the end of their first round-trip, with every response
NextRoundTrip ==
    \/ Render
    \/ \E text \in TypedTexts : Change(text)
    \/ \E i \in DOMAIN suggestions : Suggest(i)
    \/ HandleSubmit /\ Len(messages') <= RoundTripMessages
    \/ \E i \in DOMAIN requests, r \in Responses :
            Resolve(i, r) /\ Len(messages') <= RoundTripMessages

SpecRoundTrip == Init /\ [][NextRoundTrip]_vars

\* one response of each kind the continuation of handleSubmit tells apart:
\* a rejection, a null body, an object
SessionResponses ==
    { [kind |-> "rejected"],
      [kind |-> "response", ok |-> TRUE, parses |-> TRUE, json |-> [t |-> "null"]],
      [kind |-> "response", ok |-> TRUE, parses |-> TRUE,
       json |-> [t |-> "object",
                 v |-> [answer |-> <<"Barack Obama is...">>,
                        entities_found |-> <<"Barack Obama", "United States">>,
                        num_triplets |-> 10]]] }

\* the whole session up to the end of its first round-trip: the query session and
\* the stats load, with every response to GET /stats
NextSession ==
    \/ Render
    \/ \E text \in TypedTexts : Change(text)
    \/ \E i \in DOMAIN suggestions : Suggest(i)
    \/ HandleSubmit /\ Len(messages') <= RoundTripMessages
    \/ \E i \in DOMAIN requests, r \in SessionResponses :
            Resolve(i, r) /\ Len(messages') <= RoundTripMessages
    \/ \E r \in StatsResponses : StatsSettle(r)

SpecSession == Init /\ [][NextSession]_vars

\* the query session in which a submission is followed only while the conversation
\* has room for its user turn and for the answers of all outstanding calls, so that
\* no call is kept from settling by the bound on the conversation
NextLive ==
    \/ Render
    \/ \E text \in TypedTexts : Change(text)
    \/ \E i \in DOMAIN suggestions : Suggest(i)
    \/ HandleSubmit /\ Len(messages') + Len(requests') <= MaxMessages
    \/ \E i \in DOMAIN requests, r \in SessionResponses : Resolve(i, r)

\* every outstanding call eventually settles (the network answers or the fetch
\* rejects), and React eventually runs the render its setters have scheduled
Fairness ==
    /\ WF_vars(\E i \in DOMAIN requests, r \in SessionResponses : Resolve(i, r))
    /\ WF_vars(Render)

SpecLive == Init /\ [][NextLive]_vars /\ Fairness

----------------------------------------------------------------------------
(* Steps named by the properties *)

\* a submit that passes the guard of handleSubmit
Accepted == HandleSubmit /\ ~Rejects(view)

\* the continuation of some outstanding queryGraph call runs
Completed ==
    /\ Len(requests') < Len(requests)
    /\ \E i \in DOMAIN requests, r \in Responses : Resolve(i, r)

Last(s) == s[Len(s)]

----------------------------------------------------------------------------
(* Properties *)

\* C1: in every reachable state isLoading is true iff exactly one queryGraph call is
\* outstanding, and never more than one call is outstanding.
C1_PendingIffOneOutstanding ==
    /\ isLoading <=> (Len(requests) = 1)
    /\ Len(requests) <= 1

\* C2: a submit delivered while isLoading is true appends no message, issues no
\* request, and leaves messages, isLoading and input unchanged, also when it is
\* delivered before the component has rendered the state the first submit wrote.
C2_SubmitWhilePendingIsNoOp ==
    [][ (HandleSubmit /\ isLoading)
            => UNCHANGED <<messages, isLoading, input, requests>> ]_vars

\* C3: Len(messages) grows by exactly 1 in the step that accepts a submission and by
\* exactly 1 in the step that completes a round-trip, and no other step changes it.
C3_LengthPerRoundTrip ==
    [][ /\ Accepted => Len(messages') = Len(messages) + 1
        /\ Completed => Len(messages') = Len(messages) + 1
        /\ ~(Accepted \/ Completed) => Len(messages') = Len(messages) ]_vars

\* C4: the completion of a round-trip appends exactly one assistant message and sets
\* isLoading to false in the same step; isLoading never falls from true to false in a
\* step that does not append exactly one assistant message; and an assistant message
\* is appended by a completion only.
C4_ResolvedExactlyOnce ==
    [][ /\ Completed =>
              /\ Len(messages') = Len(messages) + 1
              /\ SubSeq(messages', 1, Len(messages)) = messages
              /\ Last(messages').type = "assistant"
              /\ ~isLoading'
              /\ Len(requests') = Len(requests) - 1
        /\ (isLoading /\ ~isLoading') =>
              /\ Len(messages') = Len(messages) + 1
              /\ Last(messages').type = "assistant"
        /\ (Len(messages') > Len(messages) /\ Last(messages').type = "assistant") =>
              Completed ]_vars

\* C5: a submit while the draft the input box shows (the input of the last render,
\* which is what handleSubmit is given) is empty or only whitespace changes nothing,
\* whatever the rest of the state: messages, isLoading and input stay as they are
\* and no request is issued.
C5_BlankSubmitIsNoOp ==
    [][ (HandleSubmit /\ Trim(view.input) = <<>>)
            => UNCHANGED <<messages, isLoading, input, requests>> ]_vars

\* C5 witness: after a completed round-trip the box shows a whitespace-only draft,
\* nothing is pending, and the send button can be clicked; the click leaves the
\* state as it is, so this is also the state after the ignored submit.
C5_Witness ==
    /\ Len(messages) >= 3
    /\ view.input # <<>> /\ Trim(view.input) = <<>>
    /\ ~view.isLoading /\ ~isLoading
    /\ ENABLED HandleSubmit

----------------------------------------------------------------------------
(* The completion of a round-trip, as the properties describe it *)

\* the call failed: the fetch rejected, or the body could not be parsed
Failed(r) == r.kind = "rejected" \/ ~r.parses

\* the call succeeded with a JSON object: a 2xx response whose body parses to an object
SucceededWithObject(r) ==
    r.kind = "response" /\ r.ok /\ r.parses /\ r.json.t = "object"

Present(r, name) == name \in DOMAIN r.json.v

AllPresent(r) ==
    Present(r, "answer") /\ Present(r, "entities_found") /\ Present(r, "num_triplets")

FailedResponses == { r \in Responses : Failed(r) }
Non2xxResponses == { r \in Responses : r.kind = "response" /\ ~r.ok }
ObjectResponses == { r \in Responses : SucceededWithObject(r) }
FullResponses == { r \in ObjectResponses : AllPresent(r) }

\* the step is the completion of request i with response r
Completes(i, r) == Len(requests') < Len(requests) /\ Resolve(i, r)

\* the step appends exactly one message m, an assistant turn
AppendsAssistant(m) ==
    /\ messages' = Append(messages, m)
    /\ m.type = "assistant"

FlaggedError(m) == "isError" \in DOMAIN m /\ m.isError = TRUE

\* C6 (as amended): when the call fails, for either cause, the appended assistant
\* message has isError = true and the one fixed error text, carries neither an
\* entities nor a numTriplets field, and isLoading is false afterwards.
C6_FailureMessage ==
    [][ \A i \in DOMAIN requests, r \in FailedResponses :
          Completes(i, r) =>
              /\ AppendsAssistant(Last(messages'))
              /\ FlaggedError(Last(messages'))
              /\ Last(messages').content = BACKEND_ERROR
              /\ "entities" \notin DOMAIN Last(messages')
              /\ "numTriplets" \notin DOMAIN Last(messages')
              /\ ~isLoading' ]_vars

\* C6 as claimed: the same, with entities equal to the empty sequence.
C6_FailureMessageEmptyEntities ==
    [][ \A i \in DOMAIN requests, r \in FailedResponses :
          Completes(i, r) =>
              /\ AppendsAssistant(Last(messages'))
              /\ FlaggedError(Last(messages'))
              /\ Last(messages').content = BACKEND_ERROR
              /\ "entities" \in DOMAIN Last(messages')
              /\ Last(messages').entities = <<>>
              /\ "numTriplets" \notin DOMAIN Last(messages')
              /\ ~isLoading' ]_vars

\* C6 witness: a round-trip has ended with the error message and nothing is pending.
C6_Witness ==
    /\ Len(messages) = 3
    /\ messages[2].type = "user"
    /\ FlaggedError(messages[3]) /\ messages[3].content = BACKEND_ERROR
    /\ ~isLoading /\ requests = <<>>

\* C7: a response with a non-2xx status is treated like a network error, whatever
\* its body: the message its round-trip appends is the error-flagged one with the
\* fixed error text, never a normal answer message.
C7_Non2xxIsError ==
    [][ \A i \in DOMAIN requests, r \in Non2xxResponses :
          (Completes(i, r) /\ messages' # messages) =>
              /\ AppendsAssistant(Last(messages'))
              /\ FlaggedError(Last(messages'))
              /\ Last(messages').content = BACKEND_ERROR ]_vars

\* C8 (as amended): when the call succeeds with answer, entities_found and
\* num_triplets all present and the answer not empty, the appended assistant message
\* has the answer as content, entities_found in the same order as entities,
\* num_triplets as numTriplets and no isError field; isLoading is false afterwards,
\* and when the conversation held the greeting and one user turn it now holds
\* exactly three messages: greeting, user, assistant.
C8_SuccessMessage ==
    [][ \A i \in DOMAIN requests, r \in FullResponses :
          (r.json.v.answer # <<>> /\ Completes(i, r)) =>
              /\ AppendsAssistant(Last(messages'))
              /\ Last(messages').content = r.json.v.answer
              /\ Last(messages').entities = r.json.v.entities_found
              /\ Last(messages').numTriplets = r.json.v.num_triplets
              /\ "isError" \notin DOMAIN Last(messages')
              /\ ~isLoading'
              /\ Len(messages) = 2 =>
                    /\ Len(messages') = 3
                    /\ messages'[1] = InitialMessages[1]
                    /\ messages'[2].type = "user" ]_vars

\* C8 as claimed: for every value of the three fields the content is the answer, and
\* the message has isError = false.
C8_SuccessMessageEveryValue ==
    [][ \A i \in DOMAIN requests, r \in FullResponses :
          Completes(i, r) =>
              /\ AppendsAssistant(Last(messages'))
              /\ Last(messages').content = r.json.v.answer
              /\ Last(messages').entities = r.json.v.entities_found
              /\ Last(messages').numTriplets = r.json.v.num_triplets
              /\ "isError" \in DOMAIN Last(messages')
              /\ Last(messages').isError = FALSE
              /\ ~isLoading'
              /\ Len(messages) = 2 => Len(messages') = 3 ]_vars

\* C8 witness: the first round-trip has ended with an answer, two entities in the
\* order of the response, and ten facts.
C8_Witness ==
    /\ Len(messages) = 3
    /\ messages[2].type = "user"
    /\ messages[3].type = "assistant"
    /\ messages[3].content = <<"Barack Obama is...">>
    /\ "entities" \in DOMAIN messages[3]
    /\ messages[3].entities = <<"Barack Obama", "United States">>
    /\ messages[3].numTriplets = 10
    /\ ~isLoading

\* C9: when the call succeeds with a JSON object, the appended message is a normal
\* assistant message (not flagged as an error) in which each absent field has its
\* default, whatever the other fields are: content "No answer found.", entities the
\* empty sequence, numTriplets 0; fields that are present and not falsy are kept.
C9_AbsentFieldsDefaulted ==
    [][ \A i \in DOMAIN requests, r \in ObjectResponses :
          Completes(i, r) =>
              /\ AppendsAssistant(Last(messages'))
              /\ ~FlaggedError(Last(messages'))
              /\ ~Present(r, "answer") => Last(messages').content = NO_ANSWER
              /\ ~Present(r, "entities_found") => Last(messages').entities = <<>>
              /\ ~Present(r, "num_triplets") => Last(messages').numTriplets = 0
              /\ (Present(r, "answer") /\ r.json.v.answer # <<>>) =>
                    Last(messages').content = r.json.v.answer
              /\ Present(r, "entities_found") =>
                    Last(messages').entities = r.json.v.entities_found
              /\ Present(r, "num_triplets") =>
                    Last(messages').numTriplets = r.json.v.num_triplets ]_vars

\* C9 witness: a round-trip has ended with the message of all three defaults.
C9_Witness ==
    /\ Len(messages) = 3
    /\ messages[3] = [type |-> "assistant", content |-> NO_ANSWER,
                      entities |-> <<>>, numTriplets |-> 0]
    /\ ~isLoading

\* C10 (as amended): for every accepted submission, the content of the appended user
\* message and the query of the issued request are both the draft text handleSubmit
\* was given, character for character: whitespace around it is kept.
C10_SubmittedTextIsRaw ==
    [][ Accepted =>
          /\ messages' = Append(messages, Last(messages'))
          /\ Last(messages').type = "user"
          /\ Last(messages').content = view.input
          /\ requests' = Append(requests, Last(requests'))
          /\ Last(requests').query = view.input ]_vars

\* C10 as claimed: both are the draft text with the whitespace around it removed.
C10_SubmittedTextIsTrimmed ==
    [][ Accepted =>
          /\ messages' = Append(messages, Last(messages'))
          /\ Last(messages').type = "user"
          /\ Last(messages').content = Trim(view.input)
          /\ requests' = Append(requests, Last(requests'))
          /\ Last(requests').query = Trim(view.input) ]_vars

\* C10 witness: a draft with whitespace around it has been submitted and its call is
\* outstanding.
C10_Witness ==
    /\ Len(messages) = 2
    /\ messages[2].type = "user"
    /\ messages[2].content # Trim(messages[2].content)
    /\ Len(requests) = 1
    /\ requests[1].query # Trim(requests[1].query)

----------------------------------------------------------------------------
(* The stats load, as the properties describe it *)

\* the stats fetch failed: the fetch rejected, the body could not be parsed, or the
\* counters cannot be read from the body (it is no object, or an object without them)
StatsFails(r) ==
    \/ Failed(r)
    \/ r.json.t # "object"
    \/ ("triplets" \notin DOMAIN r.json.v /\ "entities" \notin DOMAIN r.json.v)

StatsFailures == { r \in StatsResponses : StatsFails(r) }

\* C11: when the stats fetch fails, stats is {triplets: 0, entities: 0} after the
\* step and the step changes nothing of the query session (a session that held only
\* the greeting with nothing pending still does); once the fetch has settled stats
\* never changes again; and with the fetch settled a submit of a non-blank draft with
\* nothing pending can still be accepted.
C11_StatsFailureDefaults ==
    [][ /\ \A r \in StatsFailures :
              StatsSettle(r) => (stats' = STATS_ZERO /\ UNCHANGED queryVars)
        /\ statsCalls = 0 => stats' = stats
        /\ (statsCalls = 0 /\ root # "unmounted" /\ ~Rejects(view)) =>
              ENABLED Accepted ]_vars

\* C11 witness: the stats fetch has failed before any submission: the greeting is the
\* only message, nothing is pending, stats is zero, and the non-blank draft in the box
\* can be submitted.
C11_Witness ==
    /\ statsCalls = 0 /\ unhandled # {}
    /\ stats = STATS_ZERO
    /\ messages = InitialMessages /\ ~isLoading
    /\ Trim(view.input) # <<>>
    /\ ENABLED Accepted

\* C12: no failure of the stats fetch leaves the loader as a rejected promise that
\* nobody handles: the set of unhandled rejections is empty in every reachable state.
C12_StatsFailureHandled ==
    unhandled = {}

----------------------------------------------------------------------------
(* The conversation *)

\* C13: a click on the suggestion s sets input to exactly s and changes nothing else:
\* no message is appended, isLoading is unchanged and no request is issued, whether
\* or not a call is outstanding.
C13_SuggestionOnlySetsDraft ==
    [][ \A i \in DOMAIN suggestions :
          Suggest(i) =>
              /\ input' = suggestions[i]
              /\ UNCHANGED <<messages, isLoading, requests, view, root>>
              /\ UNCHANGED statsVars ]_vars

\* C13 witness: a suggestion has been selected while a call is outstanding: the draft
\* is the suggestion, the conversation holds the greeting and the user turn only.
C13_Witness ==
    /\ isLoading /\ Len(requests) = 1
    /\ input = suggestions[2]
    /\ Len(messages) = 2

\* C14: the session starts with exactly one message, the assistant greeting, and in
\* every step the conversation before the step is a prefix of the conversation after
\* it: no message is removed, reordered or modified.
C14_AppendOnly ==
    /\ Len(messages) = 1
    /\ messages[1].type = "assistant" /\ messages[1].content = GREETING
    /\ [][ /\ Len(messages') >= Len(messages)
           /\ SubSeq(messages', 1, Len(messages)) = messages ]_vars

\* C14 witness: the conversation has grown by a user turn, an assistant turn and a
\* second user turn behind the greeting.
C14_Witness ==
    /\ Len(messages) = 4
    /\ messages[1] = InitialMessages[1]
    /\ messages[2].type = "user"
    /\ messages[3].type = "assistant"
    /\ messages[4].type = "user"

ParsedResponses == Responses \ FailedResponses

\* C15: every response whose body parses as JSON, whatever the parsed value (an
\* object with or without the fields, null, a scalar, an array), ends its round-trip
\* with one appended assistant message that is not flagged as an error.
C15_ParsedBodyIsAnswered ==
    [][ \A i \in DOMAIN requests, r \in ParsedResponses :
          Completes(i, r) =>
              /\ AppendsAssistant(Last(messages'))
              /\ ~FlaggedError(Last(messages')) ]_vars

\* C16: in every state whose last message is the error message of a failed
\* round-trip, a submit of the non-blank draft the input box shows is accepted.
C16_FailureDoesNotBlock ==
    (/\ FlaggedError(Last(messages))
     /\ Trim(view.input) # <<>>
     /\ root # "unmounted"
     /\ Len(messages) < MaxMessages) => ENABLED Accepted

----------------------------------------------------------------------------
(* The stats load and the queries *)

\* C17: no step issues a fetchStats call, so the call of the mount effect is the only
\* one of the session; stats changes only in the step in which that call settles,
\* hence at most once; and no step of the query session (a submit, an answer, a
\* failure) changes stats or the number of outstanding fetchStats calls.
C17_StatsLoadedOnce ==
    [][ /\ statsCalls' <= statsCalls
        /\ statsCalls <= 1
        /\ stats' # stats => (statsCalls = 1 /\ statsCalls' = 0)
        /\ queryVars' # queryVars => UNCHANGED <<stats, statsCalls>> ]_vars

\* C17 witness: the stats call has settled and set the counters, and a round-trip
\* has been submitted and has failed.
C17_Witness ==
    /\ statsCalls = 0
    /\ stats = [triplets |-> 7, entities |-> 7]
    /\ Len(messages) = 3
    /\ FlaggedError(messages[3])

\* C18: the step in which the stats call settles changes neither messages, isLoading,
\* input nor anything else of the query session; every other step of the session is a
\* step the query session takes from the same state when the stats call never
\* settles; and whether or not the stats call is outstanding, the submit of a
\* non-blank draft with nothing pending can be accepted.
C18_StatsIndependent ==
    [][ /\ IF statsVars' # statsVars THEN UNCHANGED queryVars ELSE Next
        /\ (~Rejects(view) /\ root # "unmounted") => ENABLED Accepted ]_vars

\* C18 witness: a submission has been accepted and answered while the stats call is
\* still outstanding.
C18_Witness ==
    /\ statsCalls = 1
    /\ Len(messages) = 3
    /\ messages[2].type = "user"
    /\ messages[3].type = "assistant"
    /\ ~isLoading

\* a round-trip that failed: the fetch rejected, the body could not be parsed, or the
\* response has a non-2xx status
FailedRoundTrip(r) == Failed(r) \/ ~r.ok

\* C19: a message is flagged isError = true iff it is the assistant message of a
\* failed round-trip: the greeting, the user messages and the assistant messages of
\* successful round-trips are not flagged; and numTriplets is present on the
\* assistant messages of successful round-trips only.
C19_ErrorFlagIffFailed ==
    /\ ~FlaggedError(messages[1]) /\ "numTriplets" \notin DOMAIN messages[1]
    /\ [][ /\ Accepted =>
                 /\ ~FlaggedError(Last(messages'))
                 /\ "numTriplets" \notin DOMAIN Last(messages')
           /\ \A i \in DOMAIN requests, r \in Responses :
                 (Completes(i, r) /\ messages' # messages) =>
                     /\ FlaggedError(Last(messages')) <=> FailedRoundTrip(r)
                     /\ "numTriplets" \in DOMAIN Last(messages') <=> ~FailedRoundTrip(r)
         ]_vars

\* C20: a submit that passes the guard appends exactly one user message, sets input to
\* the empty text, sets isLoading to true and issues exactly one request, with top_k
\* 15, all in one step; and no step does only some of these: a step that appends a
\* user message, raises isLoading or issues a request is such a submit.
C20_AcceptedSubmitIsOneStep ==
    [][ /\ Accepted =>
              /\ messages' = Append(messages, Last(messages'))
              /\ Last(messages').type = "user"
              /\ input' = <<>>
              /\ isLoading' = TRUE
              /\ requests' = Append(requests, Last(requests'))
              /\ Last(requests').top_k = 15
        /\ (\/ Len(requests') > Len(requests)
            \/ (~isLoading /\ isLoading')
            \/ (Len(messages') > Len(messages) /\ Last(messages').type = "user")) =>
              Accepted ]_vars

\* C20 witness: the state a submit leaves: the user turn is appended, the draft is
\* empty, isLoading is true and the one request with top_k 15 is outstanding, while
\* the last render still shows the draft.
C20_Witness ==
    /\ Len(messages) = 2 /\ messages[2].type = "user"
    /\ input = <<>> /\ isLoading
    /\ Len(requests) = 1 /\ requests[1].top_k = 15
    /\ view.input = messages[2].content /\ ~view.isLoading

----------------------------------------------------------------------------
(* Progress and shape of the conversation *)

\* the session is idle: the component is mounted and nothing is pending
Idle == root = "mounted" /\ ~isLoading

\* C21: when every outstanding call eventually settles, every state in which
\* isLoading is true is eventually followed by a state in which the session is idle:
\* the component is still mounted and isLoading is false.
C21_PendingLeadsToIdle ==
    isLoading ~> Idle

\* the turn at position k of a conversation that alternates behind the greeting
TurnAt(k) == IF k % 2 = 0 THEN "user" ELSE "assistant"

\* C22: behind the greeting the conversation alternates user, assistant, user, ...;
\* when isLoading is false the number of messages is odd and the last message is an
\* assistant turn, and when isLoading is true the number is even and the last
\* message is a user turn.
C22_TurnsAlternate ==
    /\ \A k \in DOMAIN messages : messages[k].type = TurnAt(k)
    /\ ~isLoading => (Len(messages) % 2 = 1 /\ Last(messages).type = "assistant")
    /\ isLoading => (Len(messages) % 2 = 0 /\ Last(messages).type = "user")

\* the user edits the draft: types into the box or selects a suggestion
Edits ==
    \/ \E text \in TypedTexts : Change(text)
    \/ \E i \in DOMAIN suggestions : Suggest(i)

\* C23: while a call is outstanding the draft can be edited, and an edit changes
\* neither the conversation nor the outstanding requests, so the user message and
\* the query stay the text captured by the submit; and the completion of a
\* round-trip, with any response, leaves input exactly as it was.
C23_DraftSurvivesRoundTrip ==
    [][ /\ (requests # <<>> /\ root # "unmounted") => ENABLED Edits
        /\ (requests # <<>> /\ Edits) => UNCHANGED <<messages, requests, isLoading>>
        /\ Completed =>
              /\ input' = input
              /\ SubSeq(messages', 1, Len(messages)) = messages
              /\ \A j \in DOMAIN requests' : \E k \in DOMAIN requests :
                    requests'[j] = requests[k] ]_vars

\* C23 witness: a round-trip has completed; the user message is the text that was
\* submitted, and the draft is a different text, set after the submit.
C23_Witness ==
    /\ Len(messages) = 3
    /\ messages[2] = UserMessage(<<" ", "hi", " ">>)
    /\ messages[3].type = "assistant"
    /\ ~isLoading /\ requests = <<>>
    /\ input = suggestions[1]
====
